---- MODULE Spec2Model ----
(***************************************************************************)
(* CertID Hardware Attestation Verifier (Arbitrum Stylus contract),        *)
(* services/stylus-verifier/src/lib.rs.                                    *)
(*                                                                         *)
(* The contract state is two storage maps and one scalar.  Every public    *)
(* method is one action; the environment runs one call to completion       *)
(* before the next one starts.  lastCall records the call that produced    *)
(* the current state (its arguments and what the caller observed), and     *)
(* successes / registered are history variables counting what happened.    *)
(***************************************************************************)
EXTENDS Integers, Sequences, FiniteSets

\* ---------------------------------------------------------------- bounds
MaxDevice == 1          \* device ids are 0..MaxDevice (FixedBytes<32>)
MaxPayloadLen == 1      \* payloads have at most this many bytes
MaxVerifications == 2   \* cap on total_verifications in the model

\* ------------------------------------------------------- value domains
\* FixedBytes::<32>::ZERO is an ordinary device id (the tests use it).
DeviceIds == 0..MaxDevice

\* Address::ZERO, the value an unset StorageAddress reads as.
ADDRESS_ZERO == 0

\* Account addresses: the zero address and one other.  The contract stores
\* and returns an address and never inspects it.
Addresses == {ADDRESS_ZERO, 1}

\* U256::ZERO, the value an unset StorageU256 reads as.
U256_ZERO == 0

\* U256 arguments handed to update_trust_score: the method takes any U256,
\* so values on both sides of the documented 0-100 range are drawn.
ScoreInputs == {0, 1, 100, 101}

\* Vec<u8> attestation payloads, the empty one (Vec::new()) included.  The
\* contract never reads a payload byte, so one byte value stands for all
\* and payloads differ by their length.
Bytes == {0}
Payloads == UNION {[1..n -> Bytes] : n \in 0..MaxPayloadLen}

\* Who sends a call to a mutator.  The contract never reads msg::sender();
\* the comments name the bridge relayer as the intended caller of the
\* mutators.  Verification and the views are open to anyone, so their
\* sender is not drawn and is recorded as "Public".
Callers == {"Relayer", "Public"}

VARIABLES
    device_trust_scores,   \* StorageMap<FixedBytes<32>, StorageU256>
    device_owners,         \* StorageMap<FixedBytes<32>, StorageAddress>
    total_verifications,   \* StorageU256
    successes,             \* history: verify_tee_attestation calls that returned true
    registered,            \* history: devices register_device was called for
    last_score,            \* history: per device, <<s>> for the score of the latest
                           \* update_trust_score call, <<>> if there was none
    last_owner,            \* history: per device, <<o>> for the owner of the latest
                           \* register_device call, <<>> if there was none
    lastCall               \* the call that led to this state, as its caller saw it

vars == <<device_trust_scores, device_owners, total_verifications,
          successes, registered, last_score, last_owner, lastCall>>

storage == <<device_trust_scores, device_owners, total_verifications>>

\* A call's record: the method, its arguments, and its outcome.  returned is
\* the bool of verify_tee_attestation, value the word a view returns, and
\* reverted says whether the call aborted instead of returning.
Call(op, caller, device_id, owner, new_score, data, returned, value, reverted) ==
    [op |-> op, caller |-> caller, device_id |-> device_id, owner |-> owner,
     new_score |-> new_score, attestation_data |-> data,
     returned |-> returned, value |-> value, reverted |-> reverted]

NoCall == Call("none", "Public", 0, ADDRESS_ZERO, U256_ZERO, <<>>, FALSE, 0, FALSE)

\* ------------------------------------------------------------- genesis
\* A freshly deployed contract: every storage slot reads as zero.
Init ==
    /\ device_trust_scores = [d \in DeviceIds |-> U256_ZERO]
    /\ device_owners = [d \in DeviceIds |-> ADDRESS_ZERO]
    /\ total_verifications = U256_ZERO
    /\ successes = 0
    /\ registered = {}
    /\ last_score = [d \in DeviceIds |-> <<>>]
    /\ last_owner = [d \in DeviceIds |-> <<>>]
    /\ lastCall = NoCall

\* ------------------------------------------------------------- helpers
\* A setter whose slot does not depend on the key: every key is written.
MapSet_AllKeys(map, key, value) == [k \in DOMAIN map |-> value]

\* A setter that writes only a slot that still reads as zero.
MapSet_IfUnset(map, key, value) ==
    IF map[key] = 0 THEN [map EXCEPT ![key] = value] ELSE map

\* self.<map>.setter(key).set(value)
MapSet(map, key, value) == [map EXCEPT ![key] = value]

\* A policy that also lets a zero score through (>= for >).
ScoreIsValid_AtLeastZero(score) == score >= U256_ZERO

\* A policy that refuses the lowest positive score (off by one).
ScoreIsValid_AboveOne(score) == score > U256_ZERO + 1

\* `score > U256::ZERO`, the whole of the pilot's verification policy.
ScoreIsValid(score) == score > U256_ZERO

\* A counter update that writes back the value it read.
IncrementedCount_Same(current_count) == current_count

\* A counter update that adds two.
IncrementedCount_Double(current_count) == current_count + 2

\* `current_count + U256::from(1)`.  U256 wraps at 2^256; the model stops
\* counting at MaxVerifications, far below that.
IncrementedCount(current_count) == current_count + 1

\* ---------------------------------------------------------- operations
\* A registration that also bumps the global counter.
register_device_Counting(caller, device_id, owner) ==
    /\ total_verifications < MaxVerifications
    /\ device_owners' = MapSet(device_owners, device_id, owner)
    /\ total_verifications' = total_verifications + 1
    /\ registered' = registered \cup {device_id}
    /\ last_owner' = [last_owner EXCEPT ![device_id] = <<owner>>]
    /\ lastCall' = Call("register_device", caller, device_id, owner,
                        U256_ZERO, <<>>, FALSE, 0, FALSE)
    /\ UNCHANGED <<device_trust_scores, successes, last_score>>

\* A registration that also gives the device a default score of 100.
register_device_DefaultScore(caller, device_id, owner) ==
    /\ device_owners' = MapSet(device_owners, device_id, owner)
    /\ device_trust_scores' = MapSet(device_trust_scores, device_id, 100)
    /\ registered' = registered \cup {device_id}
    /\ last_owner' = [last_owner EXCEPT ![device_id] = <<owner>>]
    /\ lastCall' = Call("register_device", caller, device_id, owner,
                        U256_ZERO, <<>>, FALSE, 0, FALSE)
    /\ UNCHANGED <<total_verifications, successes, last_score>>

\* register_device: stores the owner, whoever calls and whatever the owner.
register_device(caller, device_id, owner) ==
    /\ device_owners' = MapSet(device_owners, device_id, owner)
    /\ registered' = registered \cup {device_id}
    /\ last_owner' = [last_owner EXCEPT ![device_id] = <<owner>>]
    /\ lastCall' = Call("register_device", caller, device_id, owner,
                        U256_ZERO, <<>>, FALSE, 0, FALSE)
    /\ UNCHANGED <<device_trust_scores, total_verifications, successes,
                   last_score>>

\* A score update that aborts for a device without an owner.
update_trust_score_RegisteredOnly(caller, device_id, new_score) ==
    LET known == device_owners[device_id] # ADDRESS_ZERO IN
    /\ device_trust_scores' =
          IF known THEN MapSet(device_trust_scores, device_id, new_score)
                   ELSE device_trust_scores
    /\ last_score' = [last_score EXCEPT ![device_id] = <<new_score>>]
    /\ lastCall' = Call("update_trust_score", caller, device_id, ADDRESS_ZERO,
                        new_score, <<>>, FALSE, 0, ~known)
    /\ UNCHANGED <<device_owners, total_verifications, successes, registered,
                   last_owner>>

\* update_trust_score: stores the score, whoever calls and whatever the score.
update_trust_score(caller, device_id, new_score) ==
    /\ device_trust_scores' = MapSet(device_trust_scores, device_id, new_score)
    /\ last_score' = [last_score EXCEPT ![device_id] = <<new_score>>]
    /\ lastCall' = Call("update_trust_score", caller, device_id, ADDRESS_ZERO,
                        new_score, <<>>, FALSE, 0, FALSE)
    /\ UNCHANGED <<device_owners, total_verifications, successes, registered,
                   last_owner>>

\* verify_tee_attestation: reads the score only; _attestation_data is unused.
verify_tee_attestation(caller, device_id, attestation_data) ==
    LET score == device_trust_scores[device_id] IN
    IF ScoreIsValid(score)
    THEN LET current_count == total_verifications IN
         /\ current_count < MaxVerifications
         /\ total_verifications' = IncrementedCount(current_count)
         /\ successes' = successes + 1
         /\ lastCall' = Call("verify_tee_attestation", caller, device_id,
                             ADDRESS_ZERO, U256_ZERO, attestation_data,
                             TRUE, 0, FALSE)
         /\ UNCHANGED <<device_trust_scores, device_owners, registered,
                        last_score, last_owner>>
    ELSE /\ lastCall' = Call("verify_tee_attestation", caller, device_id,
                             ADDRESS_ZERO, U256_ZERO, attestation_data,
                             FALSE, 0, FALSE)
         /\ UNCHANGED <<device_trust_scores, device_owners,
                        total_verifications, successes, registered,
                        last_score, last_owner>>

\* The three views.
get_device_trust(caller, device_id) ==
    /\ lastCall' = Call("get_device_trust", caller, device_id, ADDRESS_ZERO,
                        U256_ZERO, <<>>, FALSE,
                        device_trust_scores[device_id], FALSE)
    /\ UNCHANGED <<storage, successes, registered, last_score, last_owner>>

get_device_owner(caller, device_id) ==
    /\ lastCall' = Call("get_device_owner", caller, device_id, ADDRESS_ZERO,
                        U256_ZERO, <<>>, FALSE,
                        device_owners[device_id], FALSE)
    /\ UNCHANGED <<storage, successes, registered, last_score, last_owner>>

\* A total view that counts itself as a verification.
get_total_verifications_Counting(caller) ==
    /\ total_verifications < MaxVerifications
    /\ total_verifications' = total_verifications + 1
    /\ lastCall' = Call("get_total_verifications", caller, 0, ADDRESS_ZERO,
                        U256_ZERO, <<>>, FALSE, total_verifications, FALSE)
    /\ UNCHANGED <<device_trust_scores, device_owners, successes, registered,
                   last_score, last_owner>>

get_total_verifications(caller) ==
    /\ lastCall' = Call("get_total_verifications", caller, 0, ADDRESS_ZERO,
                        U256_ZERO, <<>>, FALSE, total_verifications, FALSE)
    /\ UNCHANGED <<storage, successes, registered, last_score, last_owner>>

\* ------------------------------------------------------- specification
Register == \E c \in Callers, d \in DeviceIds, o \in Addresses :
                register_device(c, d, o)
UpdateScore == \E c \in Callers, d \in DeviceIds, s \in ScoreInputs :
                update_trust_score(c, d, s)
Verify == \E d \in DeviceIds, p \in Payloads :
                verify_tee_attestation("Public", d, p)
ViewTrust == \E d \in DeviceIds : get_device_trust("Public", d)
ViewOwner == \E d \in DeviceIds : get_device_owner("Public", d)
ViewTotal == get_total_verifications("Public")

Next == \/ Register
        \/ UpdateScore
        \/ Verify
        \/ ViewTrust
        \/ ViewOwner
        \/ ViewTotal

Spec == Init /\ [][Next]_vars

TypeOK ==
    /\ device_trust_scores \in [DeviceIds -> ScoreInputs \cup {U256_ZERO}]
    /\ device_owners \in [DeviceIds -> Addresses]
    /\ total_verifications \in 0..MaxVerifications
    /\ successes \in 0..MaxVerifications
    /\ registered \subseteq DeviceIds
    /\ \A d \in DeviceIds : Len(last_score[d]) <= 1 /\ Len(last_owner[d]) <= 1
    /\ lastCall.returned \in BOOLEAN
    /\ lastCall.reverted \in BOOLEAN

\* ------------------------------------------------------------ properties
\* The device the last call was about.
LastDevice == lastCall.device_id

\* C1: in every reachable state get_total_verifications() (the stored
\* total_verifications) equals the number of verify_tee_attestation calls
\* that returned true since genesis.
C1_CounterEqualsSuccesses == total_verifications = successes

\* C1 witness: a verification has returned true after another one returned
\* true, and the counter shows both.
C1_Witness ==
    /\ lastCall.op = "verify_tee_attestation"
    /\ lastCall.returned
    /\ successes = 2
    /\ total_verifications = 2

\* C2 (as claimed): every stored trust score is within [0, 100], so
\* update_trust_score with 101 cannot have stored it.
C2_ScoresWithinRange ==
    \A d \in DeviceIds : device_trust_scores[d] \in 0..100

\* C3 (as claimed): resubmitting, right after a verification that returned
\* true, the identical payload for the same device returns false and leaves
\* the counter unchanged.
C3_ReplayRejected ==
    [][(/\ lastCall.op = "verify_tee_attestation"
        /\ lastCall.returned
        /\ lastCall'.op = "verify_tee_attestation"
        /\ lastCall'.device_id = lastCall.device_id
        /\ lastCall'.attestation_data = lastCall.attestation_data)
       => (~lastCall'.returned /\ total_verifications' = total_verifications)]_vars

\* C4 (as claimed): a register_device or update_trust_score call made by a
\* caller other than the Relayer aborts.
C4_NonRelayerAborts ==
    (/\ lastCall.op \in {"register_device", "update_trust_score"}
     /\ lastCall.caller # "Relayer")
    => lastCall.reverted

\* C5 (as claimed): verify_tee_attestation returns true only for a device
\* whose owner is not the zero address and whose trust score is above 0.
C5_TrueOnlyIfRegisteredAndScored ==
    (lastCall.op = "verify_tee_attestation" /\ lastCall.returned)
    => (/\ device_owners[LastDevice] # ADDRESS_ZERO
        /\ device_trust_scores[LastDevice] > 0)

\* C6: a verify_tee_attestation call for a device whose stored score is 0
\* returns false (it does not abort) and leaves the counter, every score and
\* every owner as they were.
C6_ZeroScoreFailsWithoutEffect ==
    [][(/\ lastCall'.op = "verify_tee_attestation"
        /\ device_trust_scores[lastCall'.device_id] = 0)
       => (/\ ~lastCall'.returned
           /\ ~lastCall'.reverted
           /\ UNCHANGED storage)]_vars

\* C6 witness: a registered device with score 0 was just refused on a
\* contract whose counter is already above 0.
C6_Witness ==
    /\ lastCall.op = "verify_tee_attestation"
    /\ ~lastCall.returned
    /\ device_trust_scores[LastDevice] = 0
    /\ device_owners[LastDevice] # ADDRESS_ZERO
    /\ total_verifications > 0

\* C7: for a device registered to an owner and holding a score in 1..100,
\* a verify_tee_attestation call (whatever the payload, a well-formed and
\* validly signed one included) returns true and raises the counter by 1.
C7_RegisteredScoredDeviceVerifies ==
    [][(/\ lastCall'.op = "verify_tee_attestation"
        /\ lastCall'.device_id \in registered
        /\ device_owners[lastCall'.device_id] # ADDRESS_ZERO
        /\ device_trust_scores[lastCall'.device_id] \in 1..100)
       => (/\ lastCall'.returned
           /\ total_verifications' = total_verifications + 1)]_vars

\* C7 witness: the first verification on a contract, for a registered
\* device with score 1, with a non-empty payload, took the counter to 1.
C7_Witness ==
    /\ lastCall.op = "verify_tee_attestation"
    /\ lastCall.returned
    /\ lastCall.attestation_data # <<>>
    /\ LastDevice \in registered
    /\ device_owners[LastDevice] # ADDRESS_ZERO
    /\ device_trust_scores[LastDevice] = 1
    /\ total_verifications = 1

\* C8 (as claimed): once register_device has been called for a device, its
\* owner is never the zero address.
C8_OwnerNeverZeroOnceRegistered ==
    \A d \in registered : device_owners[d] # ADDRESS_ZERO

\* C9 (as claimed): a verify_tee_attestation call with the empty payload,
\* which decodes into nothing, aborts instead of returning.
C9_EmptyPayloadAborts ==
    (lastCall.op = "verify_tee_attestation" /\ lastCall.attestation_data = <<>>)
    => lastCall.reverted

\* C10: calling register_device(d, o) right after register_device(d, o)
\* does not fail and leaves owners, scores and counter as the first call
\* left them.
C10_RegisterTwiceIsRegisterOnce ==
    [][(/\ lastCall.op = "register_device"
        /\ lastCall'.op = "register_device"
        /\ lastCall'.device_id = lastCall.device_id
        /\ lastCall'.owner = lastCall.owner)
       => (~lastCall'.reverted /\ UNCHANGED storage)]_vars

\* C10 witness: a device that holds a score was registered to a non-zero
\* owner after verifications had been counted; from here the same
\* registration can be repeated.
C10_Witness ==
    /\ lastCall.op = "register_device"
    /\ lastCall.owner # ADDRESS_ZERO
    /\ device_owners[LastDevice] = lastCall.owner
    /\ device_trust_scores[LastDevice] > 0
    /\ total_verifications > 0

\* The names of the three view methods.
ViewOps == {"get_device_trust", "get_device_owner", "get_total_verifications"}

\* C11: the global counter never decreases and is never reset; across every
\* step it changes only by +1, and only in a verify_tee_attestation call
\* that returns true.
C11_CounterMonotone ==
    [][/\ total_verifications' >= total_verifications
       /\ (total_verifications' # total_verifications
           => (/\ lastCall'.op = "verify_tee_attestation"
               /\ lastCall'.returned
               /\ total_verifications' = total_verifications + 1))]_vars

\* C11 witness: the counter stands at 1 after a successful verification and
\* a mutator has run since without touching it.
C11_Witness ==
    /\ total_verifications = 1
    /\ lastCall.op \in {"register_device", "update_trust_score"}

\* C12: get_device_trust, get_device_owner and get_total_verifications
\* never mutate state: a call to any of them leaves every owner, every
\* score and the counter unchanged.
C12_ViewsDoNotMutate ==
    [][lastCall'.op \in ViewOps => UNCHANGED storage]_vars

\* C12 witness: a view was just called on a contract that holds a non-zero
\* owner, a non-zero score and a non-zero counter.
C12_Witness ==
    /\ lastCall.op \in ViewOps
    /\ \E d \in DeviceIds : device_owners[d] # ADDRESS_ZERO
    /\ \E d \in DeviceIds : device_trust_scores[d] # U256_ZERO
    /\ total_verifications > 0

\* The score of the latest update_trust_score call for d, 0 if none.
LatestScore(d) == IF last_score[d] = <<>> THEN U256_ZERO ELSE last_score[d][1]

\* The owner of the latest register_device call for d, zero address if none.
LatestOwner(d) == IF last_owner[d] = <<>> THEN ADDRESS_ZERO ELSE last_owner[d][1]

\* C13: absence is readable without error: for a device update_trust_score
\* was never called on, the stored trust and what get_device_trust returns
\* are 0; for a device register_device was never called on, the stored
\* owner and what get_device_owner returns are the zero address, whatever
\* happened to other devices.
C13_AbsenceReadsAsZero ==
    /\ \A d \in DeviceIds :
          /\ (last_score[d] = <<>> => device_trust_scores[d] = U256_ZERO)
          /\ (d \notin registered => device_owners[d] = ADDRESS_ZERO)
    /\ (lastCall.op = "get_device_trust" /\ last_score[LastDevice] = <<>>)
          => (lastCall.value = U256_ZERO /\ ~lastCall.reverted)
    /\ (lastCall.op = "get_device_owner" /\ LastDevice \notin registered)
          => (lastCall.value = ADDRESS_ZERO /\ ~lastCall.reverted)

\* C13 witness: get_device_trust just returned 0 for a device that was
\* registered but never scored, while another device holds a score and an
\* owner and verifications have been counted.
C13_Witness ==
    /\ lastCall.op = "get_device_trust"
    /\ lastCall.value = U256_ZERO
    /\ last_score[LastDevice] = <<>>
    /\ LastDevice \in registered
    /\ \E e \in DeviceIds \ {LastDevice} :
          /\ device_trust_scores[e] # U256_ZERO
          /\ device_owners[e] # ADDRESS_ZERO
    /\ total_verifications > 0

\* C14: update_trust_score on a device that was never registered succeeds
\* and creates the score row: afterwards the stored trust is the given
\* score and the device's owner is still the zero address.
C14_ScoreBeforeRegistration ==
    [][(/\ lastCall'.op = "update_trust_score"
        /\ lastCall'.device_id \notin registered)
       => (/\ ~lastCall'.reverted
           /\ device_trust_scores'[lastCall'.device_id] = lastCall'.new_score
           /\ device_owners'[lastCall'.device_id] = ADDRESS_ZERO)]_vars

\* C14 witness: a never-registered device was just given a non-zero score
\* and reads back that score, with no owner.
C14_Witness ==
    /\ lastCall.op = "update_trust_score"
    /\ LastDevice \notin registered
    /\ lastCall.new_score # U256_ZERO
    /\ device_trust_scores[LastDevice] = lastCall.new_score
    /\ device_owners[LastDevice] = ADDRESS_ZERO

\* C15: frame of the mutators: register_device(d, o) changes only the owner
\* entry of d; update_trust_score(d, s) changes only the score entry of d;
\* verify_tee_attestation changes no owner and no score.
C15_MutatorFrames ==
    [][/\ lastCall'.op = "register_device"
          => (/\ device_trust_scores' = device_trust_scores
              /\ total_verifications' = total_verifications
              /\ \A e \in DeviceIds \ {lastCall'.device_id} :
                    device_owners'[e] = device_owners[e])
       /\ lastCall'.op = "update_trust_score"
          => (/\ device_owners' = device_owners
              /\ total_verifications' = total_verifications
              /\ \A e \in DeviceIds \ {lastCall'.device_id} :
                    device_trust_scores'[e] = device_trust_scores[e])
       /\ lastCall'.op = "verify_tee_attestation"
          => (/\ device_owners' = device_owners
              /\ device_trust_scores' = device_trust_scores)]_vars

\* C15 witness: a device was just registered to the zero address while
\* another device keeps a non-zero owner and a non-zero score and the
\* counter is above 0.
C15_Witness ==
    /\ lastCall.op = "register_device"
    /\ lastCall.owner = ADDRESS_ZERO
    /\ \E e \in DeviceIds \ {LastDevice} :
          /\ device_owners[e] # ADDRESS_ZERO
          /\ device_trust_scores[e] # U256_ZERO
    /\ total_verifications > 0

\* C16: last writer wins: for every device the stored trust is the score of
\* the latest update_trust_score call for it (0 if none) and the stored
\* owner is the owner of the latest register_device call for it (zero
\* address if none); get_device_trust and get_device_owner return these.
C16_LastWriterWins ==
    /\ \A d \in DeviceIds :
          /\ device_trust_scores[d] = LatestScore(d)
          /\ device_owners[d] = LatestOwner(d)
    /\ lastCall.op = "get_device_trust" => lastCall.value = LatestScore(LastDevice)
    /\ lastCall.op = "get_device_owner" => lastCall.value = LatestOwner(LastDevice)

\* C16 witness: get_device_trust just returned a registered device's latest
\* score, 0, which was written over an earlier non-zero one: no other
\* device was ever scored, yet a verification has succeeded.
C16_Witness ==
    /\ lastCall.op = "get_device_trust"
    /\ last_score[LastDevice] = <<U256_ZERO>>
    /\ lastCall.value = U256_ZERO
    /\ total_verifications > 0
    /\ \A e \in DeviceIds \ {LastDevice} : last_score[e] = <<>>
    /\ last_owner[LastDevice] # <<>>

====
